---- MODULE Spec2Model ----
(***************************************************************************)
(* massunpacker: bulk extraction of zip archives into one output root.    *)
(* The model follows src/src/massunpacker/extractor.py (Extractor),       *)
(* collision.py (CollisionTracker, generate_unique_name) and utils.py     *)
(* (check_disk_space, is_safe_path).  The file system is a set of         *)
(* directories and a map from canonical paths to file contents; a path is *)
(* a sequence of name components, as pathlib keeps it.                    *)
(***************************************************************************)
EXTENDS Integers, Sequences, FiniteSets, TLC

(* ------------------------------ bounds --------------------------------- *)
\* archives handed to one Extractor in one batch
MaxArchives == 2
\* I/O faults the environment injects in one batch (beyond those the file
\* system state itself causes)
MaxFaults == 1
\* successive collisions resolved by generate_unique_name in one run of
\* SpecUnique
MaxCollisions == 3
\* code points (or bytes) of a name given to fix_zip_filename and
\* decode_filename in SpecNames
MaxNameLen == 3

(* ------------------------------- text ---------------------------------- *)
\* Text is a sequence of code points; the words the archives below use:
t_data == <<100, 97, 116, 97>>
t_out == <<111, 117, 116>>
t_etc == <<101, 116, 99>>
t_passwd == <<112, 97, 115, 115, 119, 100>>
t_big == <<98, 105, 103>>
t_x == <<120>>
t_y == <<121>>
\* U+00E9, and its UTF-8 bytes C3 A9 read as Latin-1: U+00C3 U+00A9
e_acute == <<233>>
e_acute_mojibake == <<195, 169>>

Continuation(b) == b \in 128..191

RECURSIVE Utf8Decode(_)
\* bytes.decode("utf-8"), strict: [ok, text]; ok is FALSE for UnicodeDecodeError
Utf8Decode(bytes) ==
    IF bytes = <<>> THEN [ok |-> TRUE, text |-> <<>>]
    ELSE
    LET b == bytes[1]
        n == Len(bytes)
        width == IF b < 128 THEN 1
                 ELSE IF b \in 194..223 THEN 2
                 ELSE IF b \in 224..239 THEN 3
                 ELSE IF b \in 240..244 THEN 4
                 ELSE 0
        second_ok ==
            CASE b = 224 -> bytes[2] \in 160..191
              [] b = 237 -> bytes[2] \in 128..159
              [] b = 240 -> bytes[2] \in 144..191
              [] b = 244 -> bytes[2] \in 128..143
              [] OTHER -> Continuation(bytes[2])
        valid == /\ width > 0
                 /\ width <= n
                 /\ width >= 2 => second_ok
                 /\ \A i \in 3..width : Continuation(bytes[i])
        point == CASE width = 1 -> b
                   [] width = 2 -> (b % 32) * 64 + (bytes[2] % 64)
                   [] width = 3 -> (b % 16) * 4096 + (bytes[2] % 64) * 64 + (bytes[3] % 64)
                   [] OTHER -> (b % 8) * 262144 + (bytes[2] % 64) * 4096
                                 + (bytes[3] % 64) * 64 + (bytes[4] % 64)
    IN  IF ~valid THEN [ok |-> FALSE, text |-> <<>>]
        ELSE LET rest == Utf8Decode(SubSeq(bytes, width + 1, n))
             IN  IF rest.ok THEN [ok |-> TRUE, text |-> <<point>> \o rest.text]
                 ELSE rest

\* str.encode("latin1") succeeds when every code point is below U+0100, and
\* the bytes are then the code points
Latin1Encodable(text) == \A i \in 1..Len(text) : text[i] < 256

\* fix_zip_filename: the text re-encoded as Latin-1 and decoded as UTF-8,
\* or the text itself when either step raises
fix_zip_filename(text) ==
    IF Latin1Encodable(text) /\ Utf8Decode(text).ok THEN Utf8Decode(text).text
    ELSE text

\* an except clause that names UnicodeDecodeError only
fix_zip_filename_caught_decode == {"UnicodeDecodeError"}

\* line 62 of encoding.py: the exceptions fix_zip_filename catches
fix_zip_filename_caught == {"UnicodeDecodeError", "UnicodeEncodeError"}

\* the exception that leaves fix_zip_filename, "none" when it returns
fix_zip_filename_raises(text) ==
    LET raised == IF ~Latin1Encodable(text) THEN "UnicodeEncodeError"
                  ELSE IF ~Utf8Decode(text).ok THEN "UnicodeDecodeError"
                  ELSE "none"
    IN  IF raised \in fix_zip_filename_caught THEN "none" ELSE raised

(* --------------------------- decode_filename --------------------------- *)
\* Encodings to try, in order of preference
ENCODINGS == <<"utf-8", "cp866", "cp1251", "latin1">>

\* the code points of the bytes 128..255 in code pages 866 and 1251, as
\* Python's codecs decode them; -1 marks a byte the code page leaves
\* undefined (152 in cp1251)
cp866_high ==
    <<1040, 1041, 1042, 1043, 1044, 1045, 1046, 1047,
       1048, 1049, 1050, 1051, 1052, 1053, 1054, 1055,
       1056, 1057, 1058, 1059, 1060, 1061, 1062, 1063,
       1064, 1065, 1066, 1067, 1068, 1069, 1070, 1071,
       1072, 1073, 1074, 1075, 1076, 1077, 1078, 1079,
       1080, 1081, 1082, 1083, 1084, 1085, 1086, 1087,
       9617, 9618, 9619, 9474, 9508, 9569, 9570, 9558,
       9557, 9571, 9553, 9559, 9565, 9564, 9563, 9488,
       9492, 9524, 9516, 9500, 9472, 9532, 9566, 9567,
       9562, 9556, 9577, 9574, 9568, 9552, 9580, 9575,
       9576, 9572, 9573, 9561, 9560, 9554, 9555, 9579,
       9578, 9496, 9484, 9608, 9604, 9612, 9616, 9600,
       1088, 1089, 1090, 1091, 1092, 1093, 1094, 1095,
       1096, 1097, 1098, 1099, 1100, 1101, 1102, 1103,
       1025, 1105, 1028, 1108, 1031, 1111, 1038, 1118,
       176, 8729, 183, 8730, 8470, 164, 9632, 160>>

cp1251_high ==
    <<1026, 1027, 8218, 1107, 8222, 8230, 8224, 8225,
       8364, 8240, 1033, 8249, 1034, 1036, 1035, 1039,
       1106, 8216, 8217, 8220, 8221, 8226, 8211, 8212,
       -1, 8482, 1113, 8250, 1114, 1116, 1115, 1119,
       160, 1038, 1118, 1032, 164, 1168, 166, 167,
       1025, 169, 1028, 171, 172, 173, 174, 1031,
       176, 177, 1030, 1110, 1169, 181, 182, 183,
       1105, 8470, 1108, 187, 1112, 1029, 1109, 1111,
       1040, 1041, 1042, 1043, 1044, 1045, 1046, 1047,
       1048, 1049, 1050, 1051, 1052, 1053, 1054, 1055,
       1056, 1057, 1058, 1059, 1060, 1061, 1062, 1063,
       1064, 1065, 1066, 1067, 1068, 1069, 1070, 1071,
       1072, 1073, 1074, 1075, 1076, 1077, 1078, 1079,
       1080, 1081, 1082, 1083, 1084, 1085, 1086, 1087,
       1088, 1089, 1090, 1091, 1092, 1093, 1094, 1095,
       1096, 1097, 1098, 1099, 1100, 1101, 1102, 1103>>

\* raw_bytes.decode(encoding): [ok, text]; ok is FALSE for UnicodeDecodeError
Decode(encoding, bytes) ==
    LET high == IF encoding = "cp866" THEN cp866_high ELSE cp1251_high
        point(b) == IF b < 128 THEN b ELSE high[b - 127]
    IN  CASE encoding = "utf-8" -> Utf8Decode(bytes)
          [] encoding = "latin1" -> [ok |-> TRUE, text |-> bytes]
          [] OTHER ->
               IF \E i \in 1..Len(bytes) : point(bytes[i]) = -1
               THEN [ok |-> FALSE, text |-> <<>>]
               ELSE [ok |-> TRUE, text |-> [i \in 1..Len(bytes) |-> point(bytes[i])]]

\* str.isprintable() on the code points these decodings give: controls,
\* DEL, the C1 block, the no-break space and the soft hyphen are not
\* printable
isprintable(text) ==
    \A i \in 1..Len(text) : text[i] \notin (0..31) \cup (127..160) \cup {173}

HasNul(text) == \E i \in 1..Len(text) : text[i] = 0
HasNonAscii(text) == \E i \in 1..Len(text) : text[i] > 127

\* line 30 as Python reads it: `and` binds tighter than `or`
LooksReasonable(decoded) ==
    (~HasNul(decoded) /\ isprintable(decoded)) \/ HasNonAscii(decoded)

\* bytes.hex(): two lower-case digits for each byte
HexDigit(d) == IF d < 10 THEN 48 + d ELSE 87 + d
RECURSIVE Hex(_)
Hex(bytes) ==
    IF bytes = <<>> THEN <<>>
    ELSE <<HexDigit(Head(bytes) \div 16), HexDigit(Head(bytes) % 16)>> \o Hex(Tail(bytes))

\* "unknown_"
t_unknown == <<117, 110, 107, 110, 111, 119, 110, 95>>

\* lines 36-39: "unknown_" + raw_bytes.hex()[:32], None
Fallback(raw_bytes) ==
    LET hex == Hex(raw_bytes)
    IN  [name |-> t_unknown \o SubSeq(hex, 1, IF Len(hex) < 32 THEN Len(hex) ELSE 32),
         encoding |-> "None"]

RECURSIVE TryEncodings(_, _)
\* lines 26-34: the first encoding, from the i-th on, that decodes the
\* bytes to a string that looks reasonable
TryEncodings(raw_bytes, i) ==
    IF i > Len(ENCODINGS) THEN Fallback(raw_bytes)
    ELSE LET decoded == Decode(ENCODINGS[i], raw_bytes)
         IN  IF decoded.ok /\ LooksReasonable(decoded.text)
             THEN [name |-> decoded.text, encoding |-> ENCODINGS[i]]
             ELSE TryEncodings(raw_bytes, i + 1)

\* decode_filename(raw_bytes): (decoded_name, encoding_used)
decode_filename(raw_bytes) == TryEncodings(raw_bytes, 1)

(* ----------------------- path components ------------------------------- *)
\* A component's text is ".tmp_" repeated pre times, then "." (k = "dot"),
\* ".." (k = "up") or stem, "-c" for each counter c, and the extension.
Comp(k, pre, stem, ctr, ext) ==
    [k |-> k, pre |-> pre, stem |-> stem, ctr |-> ctr, ext |-> ext]

t_txt == <<46, 116, 120, 116>>
File(stem) == Comp("n", 0, stem, <<>>, t_txt)
Dir(stem) == Comp("n", 0, stem, <<>>, <<>>)
Dot == Comp("dot", 0, <<>>, <<>>, <<>>)
Up == Comp("up", 0, <<>>, <<>>, <<>>)
\* the name of the empty path: Path(".").name == ""
NoName == Comp("n", 0, <<>>, <<>>, <<>>)

IsDot(c) == c.k = "dot" /\ c.pre = 0 /\ c.ctr = <<>>
IsUp(c) == c.k = "up" /\ c.pre = 0 /\ c.ctr = <<>>

\* f".tmp_{target_path.name}"
TmpName(c) == [c EXCEPT !.pre = @ + 1]

\* f"{stem}-{counter}{suffix}"
Suffixed(c, counter) == [c EXCEPT !.ctr = Append(@, counter)]

(* A name from an archive: abs is TRUE when the text starts with "/".      *)
Rel(comps) == [abs |-> FALSE, comps |-> comps]
Abs(comps) == [abs |-> TRUE, comps |-> comps]

\* fix_zip_filename on a whole name.  Every character of a name outside the
\* stems and extensions ("/", ".", "-", digits, ".tmp_") is ASCII, a byte
\* that is a UTF-8 sequence of its own: the whole text is repaired exactly
\* when each stem and extension is, and then part by part.
Repairable(text) == Latin1Encodable(text) /\ Utf8Decode(text).ok
FixName(name) ==
    IF \A i \in 1..Len(name.comps) :
          Repairable(name.comps[i].stem) /\ Repairable(name.comps[i].ext)
    THEN [name EXCEPT !.comps =
            [i \in 1..Len(name.comps) |->
                [name.comps[i] EXCEPT !.stem = fix_zip_filename(@),
                                      !.ext = fix_zip_filename(@)]]]
    ELSE name

RECURSIVE DropDots(_)
\* pathlib drops "." components (and empty ones) when it parses a path
DropDots(comps) ==
    IF comps = <<>> THEN <<>>
    ELSE IF IsDot(Head(comps)) THEN DropDots(Tail(comps))
    ELSE <<Head(comps)>> \o DropDots(Tail(comps))

\* Path(name): the parsed form of a name
PurePath(name) == [abs |-> name.abs, comps |-> DropDots(name.comps)]

\* the output root /out, already resolved (Extractor.__init__)
output_dir == <<Dir(t_out)>>

\* base / name, both absolute results: an absolute name replaces the base
Join(base, name) ==
    IF name.abs THEN DropDots(name.comps) ELSE base \o DropDots(name.comps)

Parent(p) == IF p = <<>> THEN <<>> ELSE SubSeq(p, 1, Len(p) - 1)
Name(p) == IF p = <<>> THEN NoName ELSE p[Len(p)]

RECURSIVE Resolve(_)
\* Path.resolve() without symbolic links: ".." removes the component before
\* it, and "/.." is "/"
Resolve(p) ==
    IF p = <<>> THEN <<>>
    ELSE LET r == Resolve(Parent(p))
             c == Name(p)
         IN  IF IsUp(c) THEN Parent(r) ELSE Append(r, c)

IsPrefix(a, b) == Len(a) <= Len(b) /\ SubSeq(b, 1, Len(a)) = a

\* Path.is_relative_to on resolved paths
InsideRoot(p) == IsPrefix(output_dir, p)

(* --------------------------- file system ------------------------------- *)
\* What the operating system finds at the path p (which may hold ".."):
\* every component before the last must be an existing directory.
Lookup(p, ds, fs) ==
    LET bad == {i \in 0..(Len(p) - 1) : Resolve(SubSeq(p, 1, i)) \notin ds}
    IN  IF bad # {}
        THEN LET i == CHOOSE j \in bad : \A m \in bad : j <= m
             IN  IF Resolve(SubSeq(p, 1, i)) \in DOMAIN fs THEN "ENOTDIR" ELSE "ENOENT"
        ELSE IF Resolve(p) \in ds THEN "dir"
        ELSE IF Resolve(p) \in DOMAIN fs THEN "file"
        ELSE "free"

\* Path.exists()
Exists(p, ds, fs) == Lookup(p, ds, fs) \in {"dir", "file"}

RECURSIVE Mkdir(_, _, _, _)
\* Path.mkdir(parents=parents, exist_ok=True): [ok, dirs]; ok is FALSE when it raises
Mkdir(p, parents, ds, fs) ==
    LET st == Lookup(p, ds, fs)
    IN  CASE st = "free" -> [ok |-> TRUE, dirs |-> ds \cup {Resolve(p)}]
          [] st = "dir" -> [ok |-> TRUE, dirs |-> ds]
          [] st = "ENOENT" ->
                IF ~parents \/ p = <<>> THEN [ok |-> FALSE, dirs |-> ds]
                ELSE LET up == Mkdir(Parent(p), TRUE, ds, fs)
                     IN  IF up.ok THEN Mkdir(p, FALSE, up.dirs, fs) ELSE up
          [] OTHER -> [ok |-> FALSE, dirs |-> ds]

\* a function without the key k
Without(f, k) == [x \in DOMAIN f \ {k} |-> f[x]]
\* a function with f[k] = v, whether or not k was a key
With(f, k, v) == [x \in DOMAIN f \cup {k} |-> IF x = k THEN v ELSE f[x]]

(* ------------------------------ contents ------------------------------- *)
MiB == 1048576
Content(size, id) == [size |-> size, id |-> id]
\* a file opened for writing and not yet written in full
Empty == Content(0, "")
cA == Content(10, "AAAAAAAAAA")
cB == Content(10, "BBBBBBBBBB")
cC == Content(3, "CCC")
cBig == Content(500 * MiB, "big")

\* a file on disk: its bytes, and whether a rename gave it its name
OnDisk(data, placed) == [data |-> data, placed |-> placed]

(* ------------------------------ archives ------------------------------- *)
\* zipfile.ZipInfo: filename, is_dir() (the name ends with "/"), file_size
Info(filename, data) == [filename |-> filename, is_dir |-> FALSE, data |-> data]
DirInfo(filename) == [filename |-> filename, is_dir |-> TRUE, data |-> Empty]

nX == Rel(<<Dir(t_data), File(t_x)>>)                 \* data/x.txt
nDotX == Rel(<<Dir(t_data), Dot, File(t_x)>>)         \* data/./x.txt
nTmpX == Rel(<<Dir(t_data), TmpName(File(t_x))>>)     \* data/.tmp_x.txt
nX1 == Rel(<<Dir(t_data), Suffixed(File(t_x), 1)>>)   \* data/x-1.txt
nTmpX1 == Rel(<<Dir(t_data), TmpName(Suffixed(File(t_x), 1))>>)  \* data/.tmp_x-1.txt
nTmpXY == Rel(<<Dir(t_data), TmpName(File(t_x)), File(t_y)>>)  \* data/.tmp_x.txt/y.txt
nY == Rel(<<File(t_y)>>)                              \* y.txt
nRoot == Rel(<<Dot>>)                                 \* .
nUp == Rel(<<Up, Up, Dir(t_etc), Dir(t_passwd)>>)     \* ../../etc/passwd
nAbs == Abs(<<Dir(t_etc), Dir(t_passwd)>>)            \* /etc/passwd
nData == Rel(<<Dir(t_data)>>)                         \* data/
nBig == Rel(<<File(t_big)>>)                          \* big.txt
nAccent == Rel(<<File(e_acute)>>)                   \* U+00E9 .txt
nMojibake == Rel(<<File(e_acute_mojibake)>>)        \* U+00C3 U+00A9 .txt

\* an archive file on disk: whether it can be read, and its entries in
\* enumeration order
Zip(entries) == [status |-> "ok", entries |-> entries]
Broken(status) == [status |-> status, entries |-> <<>>]

Archives ==
    { Zip(<<Info(n, c)>>) : n \in {nX, nY}, c \in {cA, cB, cC} }
    \cup { Zip(<<Info(nDotX, cB)>>),
           Zip(<<Info(nRoot, cA)>>),
           Zip(<<Info(nBig, cBig)>>),
           Zip(<<DirInfo(nData), Info(nX, cA)>>),
           Zip(<<Info(nTmpX, cA), Info(nX, cB)>>),
           Zip(<<Info(nAccent, cA), Info(nMojibake, cB)>>),
           Zip(<<Info(nUp, cA), Info(nAbs, cA), Info(nY, cC)>>) }
    \cup { Broken(s) : s \in {"corrupt", "unreadable", "missing"} }

RECURSIVE SumSizes(_)
\* sum(info.file_size for info in zf.infolist())
SumSizes(entries) ==
    IF entries = <<>> THEN 0
    ELSE Head(entries).data.size + SumSizes(Tail(entries))

\* CollisionMethod
Methods == {"size", "hash-sha256", "hash-fast"}

\* Extractor.__init__: the default safety margin, 100 MiB
safety_margin == 100 * MiB

\* the free space shutil.disk_usage may report when `needed` bytes (the
\* archive's size and the margin) are asked for: just enough, one byte
\* short, and enough for the archive but not for the whole margin
FreeSpace(needed) == {needed - 1, needed, needed - 50 * MiB}

(* ------------------------------- state --------------------------------- *)
VARIABLES
    pc,         \* where the batch is: "idle" between archives, "loop" at the
                \* head of the per-entry loop, "write" / "classify" / "place"
                \* inside _extract_file, "raised" / "interrupted" when an
                \* exception has left extract_archive
    method,     \* CollisionTracker.method
    files,      \* CollisionTracker.files: name -> <<size, hash>>
    disk,       \* regular files: resolved path -> OnDisk
    dirs,       \* directories: set of resolved paths
    zf,         \* the archive given to the current (or last) call
    idx,        \* entries of zf handled so far
    available,  \* free bytes the preflight of this call was told of (0: none)
    result,     \* the ExtractionResult of the current (or last) call
    cur,        \* locals of _extract_file: filename, target_path, temp_path,
                \* is_collision, files_identical; hashed: check_collision
                \* read the staged file to hash it
    calls,      \* extract_archive calls made
    faults,     \* I/O faults injected so far
    name_in,    \* SpecNames: the text or the bytes given to the decoder
    name_out,   \* SpecNames: what fix_zip_filename or decode_filename gave back
    outcome,    \* history: how each entry of zf handled so far ended ("dir",
                \* "unsafe", "failed", "extracted", "skipped", "renamed")
    prev,       \* history: zf and outcome of the call before this one
    archives,   \* SpecBatch: the list main was given, in processing order
    location,   \* SpecBatch: where each archive file of the list is ("src",
                \* "OK", "ERR"; "gone": no file at its path)
    summaries,  \* SpecBatch: the results print_summary has printed
    exit_code   \* SpecBatch: "running", or the exit status of main

\* outcome and prev are read by no action: they record what the batch did,
\* for the properties that relate one call to an earlier one
\* the state of main (cli.py), which only SpecBatch moves
batch == <<archives, location, summaries, exit_code>>

vars == <<pc, method, files, disk, dirs, zf, idx, available, result, cur, calls, faults,
          name_in, name_out, outcome, prev, batch>>

\* the empty mapping
NoFiles == [x \in {} |-> x]

NoZip == Broken("none")
NoCur == [filename |-> Rel(<<>>), target_path |-> <<>>, temp_path |-> <<>>,
          is_collision |-> FALSE, files_identical |-> FALSE, hashed |-> FALSE]

\* ExtractionResult(archive_path=archive_path, success=True)
NewResult ==
    [success |-> TRUE, files_extracted |-> 0, files_skipped |-> 0,
     files_renamed |-> 0, size_uncompressed |-> 0, errors |-> <<>>,
     collisions |-> <<>>]

\* main is not in the picture: extract_archive is called on its own
NoBatch ==
    /\ archives = <<>>
    /\ location = <<>>
    /\ summaries = <<>>
    /\ exit_code = "running"

\* no name has been decoded
NoOutcome == [fn |-> "none", name |-> <<>>, encoding |-> "None", raised |-> "none"]

Init ==
    /\ pc = "idle"
    /\ name_in = <<>>
    /\ name_out = NoOutcome
    /\ method \in Methods
    /\ files = NoFiles
    /\ disk = NoFiles
    /\ dirs = {<<>>, output_dir}
    /\ zf = NoZip
    /\ idx = 0
    /\ available = 0
    /\ result = NewResult
    /\ cur = NoCur
    /\ calls = 0
    /\ faults = 0
    /\ outcome = <<>>
    /\ prev = [zf |-> NoZip, outcome |-> <<>>]
    /\ NoBatch

(* ------------------------- utils.py, collision.py ---------------------- *)
\* a check_disk_space that refuses the exact fit
check_disk_space_strict(required_bytes, margin, free) ==
    <<free > required_bytes + margin, free>>

\* check_disk_space: (has_enough_space, available_bytes)
check_disk_space(required_bytes, margin, free) ==
    <<free >= required_bytes + margin, free>>

\* is_safe_path: the resolved target lies under the resolved base
is_safe_path(base_dir, target_path) ==
    IsPrefix(Resolve(base_dir), Resolve(target_path))

\* CollisionTracker._compute_hash as check_collision and register_file use
\* it: None under SIZE, else the digest of the bytes under the method's
\* algorithm (distinct modelled contents have distinct digests)
NoHash == [alg |-> "none", of |-> ""]
compute_hash(m, data) ==
    IF m = "size" THEN NoHash ELSE [alg |-> m, of |-> data.id]

\* a check_collision that hashes the staged file before it compares sizes
check_collision_hash_first(fls, m, relative_path, data) ==
    IF relative_path \notin DOMAIN fls
    THEN [files |-> With(fls, relative_path, <<data.size, compute_hash(m, data)>>),
          is_collision |-> FALSE, files_identical |-> FALSE, hashed |-> (m # "size")]
    ELSE [files |-> fls, is_collision |-> TRUE,
          files_identical |-> /\ data.size = fls[relative_path][1]
                              /\ compute_hash(m, data) = fls[relative_path][2],
          hashed |-> (m # "size")]

\* a check_collision that never takes equal sizes for equal files under SIZE
check_collision_size_conflicts(fls, m, relative_path, data) ==
    IF relative_path \notin DOMAIN fls
    THEN [files |-> With(fls, relative_path, <<data.size, compute_hash(m, data)>>),
          is_collision |-> FALSE, files_identical |-> FALSE, hashed |-> (m # "size")]
    ELSE [files |-> fls, is_collision |-> TRUE,
          files_identical |-> /\ m # "size"
                              /\ data.size = fls[relative_path][1]
                              /\ compute_hash(m, data) = fls[relative_path][2],
          hashed |-> (m # "size" /\ data.size = fls[relative_path][1])]

\* CollisionTracker.check_collision on a staged file holding `data`:
\* the tracker afterwards, the pair (is_collision, files_identical), and
\* hashed: whether _compute_hash read the file
check_collision(fls, m, relative_path, data) ==
    IF relative_path \notin DOMAIN fls
    THEN [files |-> With(fls, relative_path, <<data.size, compute_hash(m, data)>>),
          is_collision |-> FALSE, files_identical |-> FALSE, hashed |-> (m # "size")]
    ELSE IF data.size # fls[relative_path][1]
    THEN [files |-> fls, is_collision |-> TRUE, files_identical |-> FALSE,
          hashed |-> FALSE]
    ELSE IF m = "size"
    THEN [files |-> fls, is_collision |-> TRUE, files_identical |-> TRUE,
          hashed |-> FALSE]
    ELSE [files |-> fls, is_collision |-> TRUE,
          files_identical |-> (compute_hash(m, data) = fls[relative_path][2]),
          hashed |-> TRUE]

\* a register_file that records nothing
register_file_nothing(fls, m, relative_path, data) == fls

\* CollisionTracker.register_file
register_file(fls, m, relative_path, data) ==
    With(fls, relative_path, <<data.size, compute_hash(m, data)>>)

\* a loop that never looks at the disk and stops at its first counter
Probe_first(parent, name, counter, ds, fs) == counter

RECURSIVE Probe(_, _, _, _, _)
\* the while loop of generate_unique_name: the first counter whose path is free
Probe(parent, name, counter, ds, fs) ==
    IF ~Exists(Append(parent, Suffixed(name, counter)), ds, fs) THEN counter
    ELSE Probe(parent, name, counter + 1, ds, fs)

\* generate_unique_name(base_path, original_name): a relative path
generate_unique_name(base_path, original_name, ds, fs) ==
    LET original_path == PurePath(original_name)
        name == Name(original_path.comps)
        rel_parent == [original_path EXCEPT !.comps = Parent(@)]
        parent == Join(base_path, rel_parent)
        counter == Probe(parent, name, 1, ds, fs)
    IN  [rel_parent EXCEPT !.comps = Append(@, Suffixed(name, counter))]

(* ------------------------------ extractor.py --------------------------- *)
\* an error message of the result: what it reports and the entry it names
Error(kind, file) == [kind |-> kind, file |-> file]
NoFile == Rel(<<>>)

\* lines 74-84: the preflight refused the archive
InsufficientSpace(r) ==
    [r EXCEPT !.success = FALSE, !.errors = Append(@, Error("space", NoFile))]

\* a BadZipFile handler that records the error and leaves success alone
CorruptedArchive_success_kept(r) ==
    [r EXCEPT !.errors = Append(@, Error("corrupt", NoFile))]

\* lines 101-105: except zipfile.BadZipFile
CorruptedArchive(r) ==
    [r EXCEPT !.success = FALSE, !.errors = Append(@, Error("corrupt", NoFile))]

\* lines 106-110: except Exception around the whole archive
UnexpectedError(r) ==
    [r EXCEPT !.success = FALSE, !.errors = Append(@, Error("unexpected", NoFile))]

\* an unsafe-path branch that also counts the entry as skipped
UnsafePath_counted(r, filename) ==
    [r EXCEPT !.errors = Append(@, Error("unsafe", filename)),
              !.files_skipped = @ + 1]

\* lines 138-142: the entry's target is not under the output root
UnsafePath(r, filename) ==
    [r EXCEPT !.errors = Append(@, Error("unsafe", filename))]

\* lines 93-99: except Exception around one entry
EntryError(r, filename) ==
    [r EXCEPT !.errors = Append(@, Error("entry", filename)), !.success = FALSE]

\* a handler that re-raises without removing the temporary file
CleanUp_nothing(temp_path, ds, fs) == fs

\* lines 186-190: the handler of _extract_file removes the temporary file
\* if it exists (unlink of a directory raises and removes nothing)
CleanUp(temp_path, ds, fs) ==
    IF Lookup(temp_path, ds, fs) = "file" THEN Without(fs, Resolve(temp_path))
    ELSE fs

\* Path.unlink() of a regular file
Unlink(p, fs) == Without(fs, Resolve(p))

\* Path.rename(target) of a regular file: the target name now holds it
Rename(src, dst, fs) ==
    With(Without(fs, Resolve(src)), Resolve(dst), OnDisk(fs[Resolve(src)].data, TRUE))

\* whether the environment may inject an I/O fault now
MayFail(fault) == fault => faults < MaxFaults
Charge(fault) == faults' = IF fault THEN faults + 1 ELSE faults

\* the entry the loop is at
Entry == zf.entries[idx + 1]

\* an exception left _extract_file: the entry is over and the loop goes on
EntryFails ==
    /\ result' = EntryError(result, Entry.filename)
    /\ idx' = idx + 1
    /\ cur' = NoCur
    /\ pc' = "loop"
    /\ outcome' = Append(outcome, "failed")

\* lines 63-84 and 101-112: extract_archive up to the per-entry loop
extract_archive(a, free) ==
    /\ UNCHANGED <<name_in, name_out, batch>>
    /\ pc = "idle"
    /\ calls < MaxArchives
    /\ calls' = calls + 1
    /\ zf' = a
    /\ idx' = 0
    /\ prev' = [zf |-> zf, outcome |-> outcome]
    /\ outcome' = <<>>
    /\ UNCHANGED <<method, files, disk, dirs, cur, faults>>
    /\ CASE a.status = "missing" ->
              \* line 64: archive_path.stat() is outside the try block
              /\ pc' = "raised"
              /\ result' = NewResult
              /\ available' = 0
         [] a.status = "corrupt" ->
              /\ pc' = "idle"
              /\ result' = CorruptedArchive(NewResult)
              /\ available' = 0
         [] a.status = "unreadable" ->
              /\ pc' = "idle"
              /\ result' = UnexpectedError(NewResult)
              /\ available' = 0
         [] OTHER ->
              LET total_size == SumSizes(a.entries)
                  space == check_disk_space(total_size, safety_margin, free)
                  sized == [NewResult EXCEPT !.size_uncompressed = total_size]
              IN  /\ available' = space[2]
                  /\ IF ~space[1]
                     THEN /\ pc' = "idle"
                          /\ result' = InsufficientSpace(sized)
                     ELSE /\ pc' = "loop"
                          /\ result' = sized

\* lines 88-89: a directory entry is passed over
SkipDirectory ==
    /\ UNCHANGED <<name_in, name_out, batch>>
    /\ pc = "loop"
    /\ idx < Len(zf.entries)
    /\ Entry.is_dir
    /\ idx' = idx + 1
    /\ outcome' = Append(outcome, "dir")
    /\ UNCHANGED <<pc, method, files, disk, dirs, zf, available, result, cur, calls, faults, prev>>

\* lines 123-152: decode the name, guard the path, make the parent
\* directory, open the entry and the temporary file
ExtractFileBegin(fault) ==
    /\ UNCHANGED <<name_in, name_out, batch>>
    /\ pc = "loop"
    /\ idx < Len(zf.entries)
    /\ ~Entry.is_dir
    /\ MayFail(fault)
    /\ Charge(fault)
    /\ UNCHANGED <<method, files, zf, available, calls, prev>>
    /\ LET filename == FixName(Entry.filename)
           target_path == Join(output_dir, filename)
           temp_path == Append(Parent(target_path), TmpName(Name(target_path)))
           made == Mkdir(Parent(target_path), TRUE, dirs, disk)
           at == Lookup(temp_path, made.dirs, disk)
       IN  IF ~is_safe_path(output_dir, target_path)
           THEN /\ ~fault
                /\ result' = UnsafePath(result, filename)
                /\ idx' = idx + 1
                /\ outcome' = Append(outcome, "unsafe")
                /\ UNCHANGED <<pc, disk, dirs, cur>>
           ELSE IF ~made.ok
           THEN /\ ~fault
                /\ dirs' = made.dirs
                /\ EntryFails
                /\ UNCHANGED disk
           ELSE IF fault \/ at \notin {"file", "free"}
           THEN \* zf.open(info) or open(temp_path, "wb") raised
                /\ dirs' = made.dirs
                /\ disk' = CleanUp(temp_path, made.dirs, disk)
                /\ EntryFails
           ELSE /\ dirs' = made.dirs
                /\ disk' = With(disk, Resolve(temp_path),
                                OnDisk(Empty, at = "file" /\ disk[Resolve(temp_path)].placed))
                /\ cur' = [filename |-> filename, target_path |-> target_path,
                           temp_path |-> temp_path, is_collision |-> FALSE,
                           files_identical |-> FALSE, hashed |-> FALSE]
                /\ pc' = "write"
                /\ UNCHANGED <<idx, result, outcome>>

\* line 153: target.write(source.read())
StageWrite(fault) ==
    /\ UNCHANGED <<name_in, name_out, batch>>
    /\ pc = "write"
    /\ MayFail(fault)
    /\ Charge(fault)
    /\ UNCHANGED <<method, files, dirs, zf, available, calls, prev>>
    /\ IF fault
       THEN /\ disk' = CleanUp(cur.temp_path, dirs, disk)
            /\ EntryFails
       ELSE /\ disk' = [disk EXCEPT ![Resolve(cur.temp_path)].data = Entry.data]
            /\ pc' = "classify"
            /\ UNCHANGED <<idx, result, cur, outcome>>

\* line 156: self.collision_tracker.check_collision(filename, temp_path)
CheckCollision(fault) ==
    /\ UNCHANGED <<name_in, name_out, batch>>
    /\ pc = "classify"
    /\ MayFail(fault)
    /\ Charge(fault)
    /\ UNCHANGED <<method, dirs, zf, available, calls, prev>>
    /\ IF fault
       THEN /\ disk' = CleanUp(cur.temp_path, dirs, disk)
            /\ EntryFails
            /\ UNCHANGED files
       ELSE LET c == check_collision(files, method, cur.filename,
                                     disk[Resolve(cur.temp_path)].data)
            IN  /\ files' = c.files
                /\ cur' = [cur EXCEPT !.is_collision = c.is_collision,
                                      !.files_identical = c.files_identical,
                                      !.hashed = c.hashed]
                /\ pc' = "place"
                /\ UNCHANGED <<disk, idx, result, outcome>>

\* the entry is done without an exception
EntryDone(how) ==
    /\ idx' = idx + 1
    /\ cur' = NoCur
    /\ pc' = "loop"
    /\ outcome' = Append(outcome, how)

\* lines 159-163: an identical file is already there
SkipIdentical(fault) ==
    /\ UNCHANGED <<name_in, name_out, batch>>
    /\ pc = "place"
    /\ cur.is_collision /\ cur.files_identical
    /\ MayFail(fault)
    /\ Charge(fault)
    /\ UNCHANGED <<method, files, dirs, zf, available, calls, prev>>
    /\ IF fault
       THEN /\ disk' = CleanUp(cur.temp_path, dirs, disk)
            /\ EntryFails
       ELSE /\ disk' = Unlink(cur.temp_path, disk)
            /\ result' = [result EXCEPT !.files_skipped = @ + 1]
            /\ EntryDone("skipped")

\* lines 164-180: a different file is already there
RenameConflicting(fault) ==
    /\ UNCHANGED <<name_in, name_out, batch>>
    /\ pc = "place"
    /\ cur.is_collision /\ ~cur.files_identical
    /\ MayFail(fault \in {"rename", "register"})
    /\ Charge(fault \in {"rename", "register"})
    /\ UNCHANGED <<method, zf, available, calls, prev>>
    /\ LET new_relative_path == generate_unique_name(output_dir, cur.filename, dirs, disk)
           new_target_path == Join(output_dir, new_relative_path)
           made == Mkdir(Parent(new_target_path), TRUE, dirs, disk)
           data == disk[Resolve(cur.temp_path)].data
       IN  IF ~made.ok \/ fault = "rename"
           THEN /\ dirs' = made.dirs
                /\ disk' = CleanUp(cur.temp_path, made.dirs, disk)
                /\ EntryFails
                /\ UNCHANGED files
           ELSE /\ dirs' = made.dirs
                /\ disk' = Rename(cur.temp_path, new_target_path, disk)
                /\ IF fault = "register"
                   THEN EntryFails /\ UNCHANGED files
                   ELSE /\ files' = register_file(files, method, new_relative_path, data)
                        /\ result' = [result EXCEPT
                                        !.files_renamed = @ + 1,
                                        !.collisions = Append(@, <<cur.filename, new_relative_path>>)]
                        /\ EntryDone("renamed")

\* lines 181-184: a new file moves to its final location
PlaceNew(fault) ==
    /\ UNCHANGED <<name_in, name_out, batch>>
    /\ pc = "place"
    /\ ~cur.is_collision
    /\ MayFail(fault)
    /\ Charge(fault)
    /\ UNCHANGED <<method, files, dirs, zf, available, calls, prev>>
    /\ IF fault \/ Lookup(cur.target_path, dirs, disk) = "dir"
       THEN /\ disk' = CleanUp(cur.temp_path, dirs, disk)
            /\ EntryFails
       ELSE /\ disk' = Rename(cur.temp_path, cur.target_path, disk)
            /\ result' = [result EXCEPT !.files_extracted = @ + 1]
            /\ EntryDone("extracted")

\* line 112: return result
Return ==
    /\ UNCHANGED <<name_in, name_out, batch>>
    /\ pc = "loop"
    /\ idx = Len(zf.entries)
    /\ pc' = "idle"
    /\ available' = 0
    /\ UNCHANGED <<method, files, disk, dirs, zf, idx, result, cur, calls, faults,
                   outcome, prev>>

\* KeyboardInterrupt is no Exception: no handler of extractor.py catches it,
\* and it leaves extract_archive for main (cli.py lines 214-216)
Interrupt ==
    /\ UNCHANGED <<name_in, name_out, batch>>
    /\ pc \in {"loop", "write", "classify", "place"}
    /\ pc' = "interrupted"
    /\ UNCHANGED <<method, files, disk, dirs, zf, idx, available, result, cur, calls, faults,
                   outcome, prev>>

Next ==
    \/ \E a \in Archives :
         \E free \in FreeSpace(SumSizes(a.entries) + safety_margin) :
           extract_archive(a, free)
    \/ SkipDirectory
    \/ \E fault \in BOOLEAN : ExtractFileBegin(fault)
    \/ \E fault \in BOOLEAN : StageWrite(fault)
    \/ \E fault \in BOOLEAN : CheckCollision(fault)
    \/ \E fault \in BOOLEAN : SkipIdentical(fault)
    \/ \E fault \in {"none", "rename", "register"} : RenameConflicting(fault)
    \/ \E fault \in BOOLEAN : PlaceNew(fault)
    \/ Return
    \/ Interrupt

Spec == Init /\ [][Next]_vars

(* ------------- archives whose entries meet staging names --------------- *)
\* SpecStaging runs the same Extractor over archives in which an entry's
\* name is, or lies under, the staging name .tmp_<name> of another entry
\* (extractor.py line 143), next to archives that name data/x.txt again:
\* twice in one archive with different bytes, and once as data/./x.txt.
StagingArchives ==
    { Zip(<<Info(nX, cA), Info(nTmpXY, cC)>>),
      Zip(<<Info(nTmpX1, cA), Info(nX1, cB), Info(nTmpX, cA), Info(nTmpX, cB)>>),
      Zip(<<DirInfo(nData), Info(nX, cA)>>),
      Zip(<<Info(nX, cA), Info(nX, cB)>>),
      Zip(<<Info(nX, cB)>>),
      Zip(<<Info(nDotX, cB)>>) }

StagingNext ==
    \/ \E a \in StagingArchives :
         \E free \in FreeSpace(SumSizes(a.entries) + safety_margin) :
           extract_archive(a, free)
    \/ SkipDirectory
    \/ \E fault \in BOOLEAN : ExtractFileBegin(fault)
    \/ \E fault \in BOOLEAN : StageWrite(fault)
    \/ \E fault \in BOOLEAN : CheckCollision(fault)
    \/ \E fault \in BOOLEAN : SkipIdentical(fault)
    \/ \E fault \in {"none", "rename", "register"} : RenameConflicting(fault)
    \/ \E fault \in BOOLEAN : PlaceNew(fault)
    \/ Return
    \/ Interrupt

SpecStaging == Init /\ [][StagingNext]_vars

(* --------------------------- cli.py: main ------------------------------ *)
\* SpecBatch is main from the construction of the Extractor (line 152) to
\* its exit: the loop over the archive list (lines 162-176, the same as
\* lines 189-203), the final summary and the two handlers (lines 207-221).

\* the archive files main may be given
BatchArchives ==
    { Zip(<<Info(nX, cA)>>),
      Zip(<<Info(nX, cB)>>),
      Zip(<<DirInfo(nData), Info(nX, cA)>>),
      Zip(<<Info(nUp, cA), Info(nAbs, cA), Info(nY, cC)>>),
      Broken("corrupt"),
      Broken("missing") }

\* lines 143-147: a list that is not empty
BatchLists == UNION { [1..n -> BatchArchives] : n \in 1..MaxArchives }

BatchInit ==
    /\ pc = "idle"
    /\ name_in = <<>>
    /\ name_out = NoOutcome
    /\ method \in Methods
    /\ files = NoFiles
    /\ disk = NoFiles
    /\ dirs = {<<>>, output_dir}
    /\ zf = NoZip
    /\ idx = 0
    /\ available = 0
    /\ result = NewResult
    /\ cur = NoCur
    /\ calls = 0
    /\ faults = 0
    /\ outcome = <<>>
    /\ prev = [zf |-> NoZip, outcome |-> <<>>]
    /\ archives \in BatchLists
    /\ location = [k \in DOMAIN archives |->
                     IF archives[k].status = "missing" THEN "gone" ELSE "src"]
    /\ summaries = <<>>
    /\ exit_code = "running"

\* lines 173 and 200: if result.success and not result.errors
moves_to_ok(r) == r.success /\ r.errors = <<>>

\* lines 162-164: the next archive of the list goes to the one Extractor
ProcessArchive ==
    /\ exit_code = "running"
    /\ Len(summaries) = calls
    /\ calls < Len(archives)
    /\ LET archive == archives[calls + 1]
       IN  \E free \in FreeSpace(SumSizes(archive.entries) + safety_margin) :
              extract_archive(archive, free)

\* lines 165-176: print_summary, the totals, and archive.rename into mv_ok
\* or mv_er; an OSError of rename reaches the handler of lines 217-221
SummariseAndMove(fault) ==
    /\ exit_code = "running"
    /\ pc = "idle"
    /\ calls = Len(summaries) + 1
    /\ MayFail(fault)
    /\ Charge(fault)
    /\ summaries' = Append(summaries, result)
    /\ IF fault
       THEN /\ exit_code' = "2"
            /\ location' = location
       ELSE /\ exit_code' = exit_code
            /\ location' = [location EXCEPT
                               ![calls] = IF moves_to_ok(result) THEN "OK" ELSE "ERR"]
    /\ UNCHANGED <<pc, method, files, disk, dirs, zf, idx, available, result, cur, calls,
                   name_in, name_out, outcome, prev, archives>>

\* lines 207-212: the list is exhausted and main returns
Complete ==
    /\ exit_code = "running"
    /\ pc = "idle"
    /\ calls = Len(archives)
    /\ Len(summaries) = calls
    /\ exit_code' = "0"
    /\ UNCHANGED <<pc, method, files, disk, dirs, zf, idx, available, result, cur, calls,
                   faults, name_in, name_out, outcome, prev, archives, location, summaries>>

\* lines 217-221: an exception left extract_archive
Fatal ==
    /\ exit_code = "running"
    /\ pc = "raised"
    /\ exit_code' = "2"
    /\ UNCHANGED <<pc, method, files, disk, dirs, zf, idx, available, result, cur, calls,
                   faults, name_in, name_out, outcome, prev, archives, location, summaries>>

\* lines 214-216: KeyboardInterrupt left extract_archive
Interrupted ==
    /\ exit_code = "running"
    /\ pc = "interrupted"
    /\ exit_code' = "130"
    /\ UNCHANGED <<pc, method, files, disk, dirs, zf, idx, available, result, cur, calls,
                   faults, name_in, name_out, outcome, prev, archives, location, summaries>>

BatchNext ==
    \/ ProcessArchive
    \/ SkipDirectory
    \/ \E fault \in BOOLEAN : ExtractFileBegin(fault)
    \/ \E fault \in BOOLEAN : StageWrite(fault)
    \/ \E fault \in BOOLEAN : CheckCollision(fault)
    \/ \E fault \in BOOLEAN : SkipIdentical(fault)
    \/ \E fault \in {"none", "rename", "register"} : RenameConflicting(fault)
    \/ \E fault \in BOOLEAN : PlaceNew(fault)
    \/ Return
    \/ Interrupt
    \/ \E fault \in BOOLEAN : SummariseAndMove(fault)
    \/ Complete
    \/ Fatal
    \/ Interrupted

SpecBatch == BatchInit /\ [][BatchNext]_vars

\* the steps of main itself
MainStep ==
    \/ ProcessArchive
    \/ \E fault \in BOOLEAN : SummariseAndMove(fault)
    \/ Complete
    \/ Fatal
    \/ Interrupted

\* extract_archive is in its loop over the entries
InCall == pc \in {"loop", "write", "classify", "place"}

\* main is one sequential process that is not left waiting: whenever it can
\* take a step of its own it takes one, and a call of extract_archive that
\* is in progress goes on until it returns or raises.  The second conjunct
\* is weak fairness of the steps of extract_archive with their enabling
\* condition written out: one of them is enabled exactly when InCall holds.
SpecBatchFair ==
    /\ SpecBatch
    /\ WF_vars(MainStep)
    /\ ([]<>(~InCall) \/ []<><<BatchNext>>_vars)

(* ------------------ generate_unique_name on its own -------------------- *)
\* SpecUnique applies generate_unique_name to colliding names over output
\* trees that already hold some of the alternate names, and places a file at
\* each path it returns, as lines 166-172 of extractor.py do.

\* names that collide, and paths the output tree may hold at the start
UniqueNames == {nX, nDotX, nTmpX, nY, nX1, nRoot}
UniqueTaken ==
    { Join(output_dir, Rel(<<Dir(t_data), Suffixed(File(t_x), k)>>)) : k \in 1..3 }
    \cup { Join(output_dir, Rel(<<Suffixed(File(t_y), 1)>>)),
           Join(output_dir, Rel(<<Dir(t_data), Suffixed(Suffixed(File(t_x), 1), 1)>>)) }

UniqueInit ==
    /\ pc = "idle"
    /\ name_in = <<>>
    /\ name_out = NoOutcome
    /\ method = "hash-fast"
    /\ files = NoFiles
    /\ \E taken \in SUBSET UniqueTaken : disk = [p \in taken |-> OnDisk(cA, TRUE)]
    /\ \E d \in SUBSET {Join(output_dir, Rel(<<Suffixed(File(t_y), 2)>>))} :
          dirs = {<<>>, output_dir, Join(output_dir, nData)} \cup d
    /\ zf = NoZip
    /\ idx = 0
    /\ available = 0
    /\ result = NewResult
    /\ cur = NoCur
    /\ calls = 0
    /\ faults = 0
    /\ outcome = <<>>
    /\ prev = [zf |-> NoZip, outcome |-> <<>>]
    /\ NoBatch

\* extractor.py lines 166-172 and 176-180: a conflicting file gets the name
\* generate_unique_name returns, and the pair is appended to the result
Collide(original_name) ==
    /\ UNCHANGED <<name_in, name_out, batch>>
    /\ Len(result.collisions) < MaxCollisions
    /\ LET new_relative_path == generate_unique_name(output_dir, original_name, dirs, disk)
           new_target_path == Join(output_dir, new_relative_path)
       IN  /\ disk' = With(disk, Resolve(new_target_path), OnDisk(cB, TRUE))
           /\ result' = [result EXCEPT
                           !.files_renamed = @ + 1,
                           !.collisions = Append(@, <<original_name, new_relative_path>>)]
    /\ UNCHANGED <<pc, method, files, dirs, zf, idx, available, cur, calls, faults,
                   outcome, prev>>

UniqueNext == \E original_name \in UniqueNames : Collide(original_name)

SpecUnique == UniqueInit /\ [][UniqueNext]_vars

(* ------------- fix_zip_filename and decode_filename on their own ------- *)
\* SpecNames gives one name to fix_zip_filename (text, as zipfile hands it
\* over) or to decode_filename (raw bytes) and keeps what came back.

\* NUL, newline, "A", and the bytes 98 (undefined in cp1251), A9, C0, C3
\* (C3 A9 is U+00E9 in UTF-8, C3 98 is U+00D8); U+0438 for text only
NameAlphabet == {0, 10, 65, 152, 169, 192, 195, 1080}

NameInputs ==
    UNION { [1..n -> NameAlphabet] : n \in 0..MaxNameLen }

IsBytes(name) == \A i \in 1..Len(name) : name[i] < 256

NamesInit ==
    /\ name_in \in NameInputs
    /\ name_out = NoOutcome
    /\ pc = "idle"
    /\ method = "hash-fast"
    /\ files = NoFiles
    /\ disk = NoFiles
    /\ dirs = {<<>>, output_dir}
    /\ zf = NoZip
    /\ idx = 0
    /\ available = 0
    /\ result = NewResult
    /\ cur = NoCur
    /\ calls = 0
    /\ faults = 0
    /\ outcome = <<>>
    /\ prev = [zf |-> NoZip, outcome |-> <<>>]
    /\ NoBatch

\* extractor.py line 128: filename = fix_zip_filename(filename)
FixZipFilename ==
    /\ name_out = NoOutcome
    /\ LET raised == fix_zip_filename_raises(name_in)
       IN  name_out' = [fn |-> "fix_zip_filename",
                        name |-> IF raised = "none" THEN fix_zip_filename(name_in) ELSE <<>>,
                        encoding |-> "None",
                        raised |-> raised]
    /\ UNCHANGED <<pc, method, files, disk, dirs, zf, idx, available, result, cur, calls,
                   faults, name_in, outcome, prev, batch>>

\* extractor.py line 132: filename, encoding = decode_filename(raw_name)
DecodeFilename ==
    /\ name_out = NoOutcome
    /\ IsBytes(name_in)
    /\ LET decoded == decode_filename(name_in)
       IN  name_out' = [fn |-> "decode_filename", name |-> decoded.name,
                        encoding |-> decoded.encoding, raised |-> "none"]
    /\ UNCHANGED <<pc, method, files, disk, dirs, zf, idx, available, result, cur, calls,
                   faults, name_in, outcome, prev, batch>>

NamesNext == FixZipFilename \/ DecodeFilename

SpecNames == NamesInit /\ [][NamesNext]_vars

(* ------------------------------- helpers ------------------------------- *)
\* the file at the staging path of the entry in hand, if any
Staged == IF cur = NoCur THEN {} ELSE {Resolve(cur.temp_path)} \cap DOMAIN disk

Counted(r) == r.files_extracted + r.files_skipped + r.files_renamed

RECURSIVE NonDirectories(_)
NonDirectories(entries) ==
    IF entries = <<>> THEN 0
    ELSE (IF Head(entries).is_dir THEN 0 ELSE 1) + NonDirectories(Tail(entries))

\* extract_archive has just been called
Called == pc = "idle" /\ calls' = calls + 1

(* -------------------------------- claims ------------------------------- *)
\* C1: no silent overwrite.  Once a rename has placed an entry's complete
\* content at a path, no step places different complete content at that
\* path: the path keeps the content of the first entry placed there.
NoSilentOverwrite ==
    [][\A p \in DOMAIN disk \cap DOMAIN disk' :
          (disk[p].placed /\ disk[p].data # Empty
              /\ disk'[p].placed /\ disk'[p].data # Empty)
          => disk'[p].data = disk[p].data]_vars

\* C2: path-traversal defence.  An entry whose resolved target is outside
\* the output root changes neither the directories, the files nor the
\* tracker, appends one error and lets the loop go on; and in every state
\* every file lies under the output root.
UnsafeEntryRejected ==
    [][(pc = "loop" /\ idx < Len(zf.entries) /\ idx' = idx + 1
          /\ ~Entry.is_dir
          /\ ~InsideRoot(Resolve(Join(output_dir, Entry.filename))))
        => /\ UNCHANGED <<disk, dirs, files>>
           /\ result'.errors = Append(result.errors, Error("unsafe", Entry.filename))
           /\ pc' = "loop"]_vars

NoFileOutsideRoot == \A p \in DOMAIN disk : InsideRoot(p)

PathTraversalDefence == UnsafeEntryRejected /\ []NoFileOutsideRoot

\* C3: when extract_archive has returned, success is true exactly when the
\* result holds no error.
SuccessIffNoErrors ==
    pc = "idle" => (result.success <=> result.errors = <<>>)

\* C4: atomic visibility.  A file that a rename has placed at a final path
\* holds complete content in every state; incomplete content is found only
\* at the staging path of the entry in hand.
AtomicVisibility ==
    \A p \in DOMAIN disk :
        /\ disk[p].placed => disk[p].data # Empty
        /\ disk[p].data = Empty => p \in Staged

\* C5: cancellation.  When an interrupt has left extract_archive, no staged
\* temporary file remains and no entry is left half done.
CancellationLeavesNothingStaged ==
    pc = "interrupted" => (cur = NoCur /\ \A p \in DOMAIN disk : disk[p].placed)

\* C6: extract_archive never raises: no call ends with an exception crossing
\* the archive boundary.
NeverRaises == pc # "raised"

\* C7: disk-space preflight.  For a readable archive the preflight is told
\* the free space `available` and compares it with the summed uncompressed
\* size plus the safety margin: when it is enough (equality included) the
\* extraction proceeds to the entries; when it is not, the call returns
\* success = false with the one insufficient-space error, all counters 0,
\* and the output tree and the tracker as they were.
DiskSpacePreflight ==
    [][(Called /\ zf'.status = "ok")
        => /\ result'.size_uncompressed = SumSizes(zf'.entries)
           /\ IF available' >= SumSizes(zf'.entries) + safety_margin
              THEN /\ pc' = "loop"
                   /\ result'.success /\ result'.errors = <<>>
              ELSE /\ pc' = "idle"
                   /\ ~result'.success
                   /\ result'.errors = <<Error("space", NoFile)>>
                   /\ result'.files_extracted = 0
                   /\ result'.files_skipped = 0
                   /\ result'.files_renamed = 0
                   /\ UNCHANGED <<disk, dirs, files>>]_vars

\* C7 witness: 500 MiB required, 100 MiB margin, 550 MiB free, refused with
\* files of an earlier archive in the output tree
PreflightRefused ==
    /\ pc = "idle"
    /\ zf.status = "ok"
    /\ result.size_uncompressed = 500 * MiB
    /\ available = 550 * MiB
    /\ result.errors = <<Error("space", NoFile)>>
    /\ disk # NoFiles

\* C8: corrupt archive.  A call on an archive that is no zip returns
\* success = false with exactly one error, which reports the corruption,
\* all counters 0, and the output tree and the tracker as they were.
CorruptArchiveResult ==
    [][(Called /\ zf'.status = "corrupt")
        => /\ pc' = "idle"
           /\ ~result'.success
           /\ Len(result'.errors) = 1
           /\ result'.errors[1].kind = "corrupt"
           /\ result'.files_extracted = 0
           /\ result'.files_skipped = 0
           /\ result'.files_renamed = 0
           /\ UNCHANGED <<disk, dirs, files>>]_vars

\* C8 witness: a corrupt archive met after an archive that left files
CorruptAfterFiles ==
    /\ pc = "idle"
    /\ zf.status = "corrupt"
    /\ ~result.success
    /\ disk # NoFiles
    /\ files # NoFiles

\* an entry with a safe target ended without being counted: it failed
EntryFailed ==
    /\ pc \in {"loop", "write", "classify", "place"}
    /\ idx' = idx + 1
    /\ ~Entry.is_dir
    /\ is_safe_path(output_dir, Join(output_dir, Entry.filename))
    /\ Counted(result') = Counted(result)

NothingStaged == \A p \in DOMAIN disk : disk[p].placed

\* C9: entry-failure isolation.  When an entry fails while it is staged,
\* classified or placed, its temporary file is gone after the step, exactly
\* one error is appended for it, and the loop goes on with the next entry
\* of the same archive; a call returns only when every entry has been
\* handled, and then no staged file is left.
EntryFailureIsolated ==
    /\ [][EntryFailed
           => /\ result'.errors = Append(result.errors, Error("entry", Entry.filename))
              /\ NothingStaged'
              /\ pc' = "loop"
              /\ zf' = zf]_vars
    /\ [](pc \in {"idle", "loop"} => NothingStaged)
    /\ []((pc = "idle" /\ zf.status = "ok" /\ result.errors # <<Error("space", NoFile)>>)
           => idx = Len(zf.entries))

\* C9 witness: the first entry failed on an injected fault after staging
\* began, and the second entry of the archive was extracted
FailedEntryThenNext ==
    /\ pc = "loop"
    /\ Len(zf.entries) = 2
    /\ idx = 2
    /\ faults = 1
    /\ result.errors = <<Error("entry", zf.entries[1].filename)>>
    /\ result.files_extracted = 1

\* C10: counting.  For an archive that passed open and preflight, every
\* non-directory entry handled so far is counted exactly once: either as
\* extracted, skipped or renamed, or as one error (unsafe path or I/O).
CountingInvariant ==
    (zf.status = "ok" /\ pc # "raised" /\ result.errors # <<Error("space", NoFile)>>)
    => /\ Counted(result) + Len(result.errors)
            = NonDirectories(SubSeq(zf.entries, 1, idx))
       /\ \A i \in 1..Len(result.errors) : result.errors[i].kind \in {"unsafe", "entry"}

\* C10 witness: a returned archive of a directory and a file, and one of
\* three entries of which two were rejected
CountedAll ==
    /\ pc = "idle"
    /\ idx = 3
    /\ Len(zf.entries) = 3
    /\ result.files_extracted = 1
    /\ Len(result.errors) = 2

\* check_collision returned for the entry in hand
Classified == pc = "classify" /\ pc' = "place"

\* the bytes of the staged file of the entry in hand
StagedData == disk[Resolve(cur.temp_path)].data

\* C11: classification rule.  When check_collision returns for the name p
\* and the staged file: p unseen gives NEW and inserts the record (size,
\* fingerprint) of the staged file for p and nothing else; p seen with a
\* different size gives CONFLICTING without hashing; p seen with the same
\* size gives IDENTICAL without hashing under SIZE, and under a hashing
\* method IDENTICAL exactly when the staged file's fingerprint is the
\* stored one; on a seen path the tracker is unchanged.
ClassificationRule ==
    [][Classified =>
        LET p == cur.filename
            size == StagedData.size
            fingerprint == IF method = "size" THEN NoHash
                           ELSE [alg |-> method, of |-> StagedData.id]
        IN  IF p \notin DOMAIN files
            THEN /\ ~cur'.is_collision /\ ~cur'.files_identical
                 /\ DOMAIN files' = DOMAIN files \cup {p}
                 /\ files'[p] = <<size, fingerprint>>
                 /\ \A q \in DOMAIN files : files'[q] = files[q]
            ELSE /\ files' = files
                 /\ cur'.is_collision
                 /\ IF size # files[p][1]
                    THEN ~cur'.files_identical /\ ~cur'.hashed
                    ELSE IF method = "size"
                    THEN cur'.files_identical /\ ~cur'.hashed
                    ELSE cur'.files_identical <=> (fingerprint = files[p][2])]_vars

\* C11 witness: under a hashing method a seen name came with the recorded
\* size and other bytes, and was classified CONFLICTING after hashing
SameSizeOtherBytes ==
    /\ pc = "place"
    /\ method # "size"
    /\ cur.is_collision /\ ~cur.files_identical /\ cur.hashed
    /\ StagedData.size = files[cur.filename][1]

\* a call that ran without an injected fault and was not refused by the
\* preflight has returned
ReturnedClean == pc = "idle" /\ zf.status = "ok" /\ faults = 0 /\ Len(outcome) = Len(zf.entries)

\* C12: conflict resolution scenario.  With a fresh Extractor, an archive A
\* holding only data/x.txt yields files_extracted = 1; and under a hashing
\* method an archive B holding data/x.txt with the same size and other
\* bytes, extracted next, yields files_renamed = 1, extracted = skipped = 0,
\* success, collisions = [(data/x.txt, data/x-1.txt)]; then data/x.txt
\* holds A's bytes, data/x-1.txt holds B's, and the tracker has a record
\* for data/x-1.txt.
ConflictScenario ==
    \A a, b \in {cA, cB, cC} :
        /\ (ReturnedClean /\ calls = 1 /\ zf = Zip(<<Info(nX, a)>>))
             => /\ result.files_extracted = 1
                /\ outcome = <<"extracted">>
        /\ (/\ ReturnedClean /\ calls = 2 /\ method # "size"
            /\ a.size = b.size /\ a # b
            /\ prev = [zf |-> Zip(<<Info(nX, a)>>), outcome |-> <<"extracted">>]
            /\ zf = Zip(<<Info(nX, b)>>))
             => /\ result.files_renamed = 1
                /\ result.files_extracted = 0
                /\ result.files_skipped = 0
                /\ result.success
                /\ result.collisions = <<<<nX, nX1>>>>
                /\ disk[Join(output_dir, nX)].data = a
                /\ disk[Join(output_dir, nX1)].data = b
                /\ nX1 \in DOMAIN files

\* C12 witness: data/x.txt with "AAAAAAAAAA", then data/x.txt with
\* "BBBBBBBBBB", under sha256: the second was renamed
ConflictRenamed ==
    /\ ReturnedClean /\ calls = 2 /\ method = "hash-sha256"
    /\ prev.zf = Zip(<<Info(nX, cA)>>)
    /\ zf = Zip(<<Info(nX, cB)>>)
    /\ result.files_renamed = 1

\* the entry in hand is met again: the call before this one was given the
\* same archive and extracted this entry as a new file
Reextracted ==
    /\ pc \in {"loop", "write", "classify", "place"}
    /\ zf.status = "ok"
    /\ prev.zf = zf
    /\ idx < Len(zf.entries)
    /\ idx < Len(prev.outcome)
    /\ prev.outcome[idx + 1] = "extracted"

\* C13: re-extraction idempotence.  When the same Extractor is given the
\* same archive again, every entry the first pass extracted is classified
\* IDENTICAL, and, no I/O fault being injected, ends counted as skipped
\* with its staged copy deleted.
ReextractionIdempotent ==
    [][Reextracted =>
        /\ Classified => (cur'.is_collision /\ cur'.files_identical)
        /\ (idx' = idx + 1 /\ faults' = faults)
             => /\ outcome' = Append(outcome, "skipped")
                /\ result'.files_skipped = result.files_skipped + 1
                /\ Staged' = {}]_vars

\* under SIZE the entry in hand has been classified against a recorded
\* name whose recorded size is its own, the file at its path holding other
\* bytes
SameSizeUnderSize ==
    /\ pc = "place"
    /\ method = "size"
    /\ cur.filename \in DOMAIN files
    /\ cur.is_collision
    /\ files[cur.filename][1] = StagedData.size
    /\ Resolve(cur.target_path) \in DOMAIN disk
    /\ disk[Resolve(cur.target_path)].data # StagedData

\* C14: SIZE-only imprecision.  Under SIZE, an entry for a recorded name
\* with the recorded size and other bytes is classified IDENTICAL; no I/O
\* fault being injected, its staged file is deleted, files_skipped grows
\* by one, nothing is renamed, and every other file (the one at its path
\* among them) keeps its bytes: the entry's bytes are stored nowhere.  So
\* data/x.txt extracted with one content and then with another of the same
\* size leaves the first content, and the second on no path.
SizeOnlyImprecision ==
    /\ [][SameSizeUnderSize =>
            /\ cur.files_identical
            /\ (idx' = idx + 1 /\ faults' = faults)
                 => /\ outcome' = Append(outcome, "skipped")
                    /\ result'.files_skipped = result.files_skipped + 1
                    /\ result'.files_renamed = result.files_renamed
                    /\ result'.collisions = result.collisions
                    /\ disk' = Without(disk, Resolve(cur.temp_path))
                    /\ disk'[Resolve(cur.target_path)] = disk[Resolve(cur.target_path)]
                    /\ files' = files]_vars
    /\ [](\A a, b \in {cA, cB, cC} :
            (/\ ReturnedClean /\ calls = 2 /\ method = "size"
             /\ a.size = b.size /\ a # b
             /\ prev = [zf |-> Zip(<<Info(nX, a)>>), outcome |-> <<"extracted">>]
             /\ zf = Zip(<<Info(nX, b)>>))
            => /\ result.files_skipped = 1
               /\ result.files_renamed = 0
               /\ disk[Join(output_dir, nX)].data = a
               /\ \A p \in DOMAIN disk : disk[p].data # b)

\* C14 witness: under SIZE, data/x.txt with "AAAAAAAAAA" and then with
\* "BBBBBBBBBB": the second entry was skipped
SecondContentDropped ==
    /\ ReturnedClean /\ calls = 2 /\ method = "size"
    /\ prev.zf = Zip(<<Info(nX, cA)>>)
    /\ zf = Zip(<<Info(nX, cB)>>)
    /\ outcome = <<"skipped">>
    /\ disk[Join(output_dir, nX)].data = cA

\* the counter generate_unique_name gave the new name of a collision pair
CounterOf(pair) == LET c == Name(pair[2].comps).ctr IN c[Len(c)]

\* C15: generate_unique_name(root, name.ext) returns parent/name-k.ext with
\* k the smallest integer >= 1 whose path does not exist: the path is not
\* on disk when returned, and keeps the parent directory, the stem and the
\* extension of the original; with a file placed at each returned path,
\* successive collisions on one name get strictly increasing counters, so
\* -1, -2, -3 on a tree that held none of them.
UniqueNameSmallestFree ==
    /\ [][Len(result'.collisions) = Len(result.collisions) + 1 =>
            LET pair == result'.collisions[Len(result'.collisions)]
                original_path == PurePath(pair[1])
                new == pair[2]
                k == CounterOf(pair)
                at(j) == Append(Parent(Join(output_dir, new)),
                                Suffixed(Name(original_path.comps), j))
            IN  /\ new.abs = original_path.abs
                /\ Parent(new.comps) = Parent(original_path.comps)
                /\ Name(new.comps) = Suffixed(Name(original_path.comps), k)
                /\ k >= 1
                /\ ~Exists(Join(output_dir, new), dirs, disk)
                /\ \A j \in 1..(k - 1) : Exists(at(j), dirs, disk)
                /\ \A i \in 1..Len(result.collisions) :
                      result.collisions[i][1] = pair[1]
                        => CounterOf(result.collisions[i]) < k]_vars
    /\ []((/\ Len(result.collisions) = 3
           /\ \A i \in 1..3 : result.collisions[i][1] = nX
           /\ Cardinality(DOMAIN disk) = 3)
          => \A i \in 1..3 : CounterOf(result.collisions[i]) = i)

\* C15 witness: three collisions on data/x.txt got -1, -2 and -3
ThreeAlternates ==
    /\ Len(result.collisions) = 3
    /\ \A i \in 1..3 : result.collisions[i][1] = nX /\ CounterOf(result.collisions[i]) = i
    /\ Cardinality(DOMAIN disk) = 3

\* one record for a path of the output tree, however its name is spelt
OneRecordPerPath ==
    \A k1, k2 \in DOMAIN files :
        Resolve(Join(output_dir, k1)) = Resolve(Join(output_dir, k2)) => k1 = k2

FingerprintNoneIffSize ==
    \A k \in DOMAIN files : files[k][2] = NoHash <=> method = "size"

RecordsNeverChange ==
    [][\A k \in DOMAIN files : k \in DOMAIN files' /\ files'[k] = files[k]]_vars

\* C16: FileRecord invariants.  In every state the tracker holds at most
\* one record for a path of the output tree; a record's fingerprint is
\* None exactly when the method is SIZE; and no step changes or removes
\* the value stored under a key the tracker already holds.
FileRecordInvariants ==
    []OneRecordPerPath /\ []FingerprintNoneIffSize /\ RecordsNeverChange

\* the keys of the tracker that name the file at p
KeysOf(p) == {k \in DOMAIN files : Resolve(Join(output_dir, k)) = p}

\* C17: between calls, no I/O fault having been injected, every file the
\* batch has placed under the output root has exactly one record whose
\* key names it, and that record's size and fingerprint are those of the
\* file on disk.
PlacedFileHasItsRecord ==
    (pc = "idle" /\ faults = 0) =>
        \A p \in DOMAIN disk :
            (disk[p].placed /\ InsideRoot(p)) =>
                /\ Cardinality(KeysOf(p)) = 1
                /\ \A k \in KeysOf(p) :
                      files[k] = <<disk[p].data.size, compute_hash(method, disk[p].data)>>

RECURSIVE Utf8Encode(_)
\* the UTF-8 bytes of a text
Utf8Encode(text) ==
    IF text = <<>> THEN <<>>
    ELSE LET c == Head(text)
             six(n) == 128 + ((c \div n) % 64)
             bytes == IF c < 128 THEN <<c>>
                      ELSE IF c < 2048 THEN <<192 + (c \div 64), six(1)>>
                      ELSE IF c < 65536 THEN <<224 + (c \div 4096), six(64), six(1)>>
                      ELSE <<240 + (c \div 262144), six(4096), six(64), six(1)>>
         IN  bytes \o Utf8Encode(Tail(text))

\* C18: mojibake repair.  fix_zip_filename never raises; it returns its
\* input when the text has a code point of U+0100 or above or when its
\* Latin-1 bytes are not valid UTF-8, and otherwise the text those bytes
\* are the UTF-8 encoding of.
MojibakeRepair ==
    name_out.fn = "fix_zip_filename" =>
        /\ name_out.raised = "none"
        /\ IF (\A i \in 1..Len(name_in) : name_in[i] < 256) /\ Utf8Decode(name_in).ok
           THEN /\ name_out.name = Utf8Decode(name_in).text
                /\ Utf8Encode(name_out.name) = name_in
           ELSE name_out.name = name_in

\* C18 witness: U+00C3 U+00A9 was repaired to U+00E9
MojibakeRepaired ==
    /\ name_out.fn = "fix_zip_filename"
    /\ name_in = e_acute_mojibake
    /\ name_out.name = e_acute

\* C19: for raw bytes that are valid CP1251 and not valid UTF-8,
\* decode_filename returns their CP1251 decoding with encoding_used =
\* "cp1251".
Cp1251NameDecoded ==
    (/\ name_out.fn = "decode_filename"
     /\ Decode("cp1251", name_in).ok
     /\ ~Decode("utf-8", name_in).ok)
    => /\ name_out.encoding = "cp1251"
       /\ name_out.name = Decode("cp1251", name_in).text

\* C20: a name decode_filename returns with an encoding contains no NUL
\* and is fully printable or has a non-ASCII character; when no candidate
\* is accepted the name is "unknown_" and the first 32 hex digits of the
\* bytes, with encoding None.
DecodeAcceptance ==
    name_out.fn = "decode_filename" =>
        /\ name_out.encoding # "None"
             => /\ ~HasNul(name_out.name)
                /\ isprintable(name_out.name) \/ HasNonAscii(name_out.name)
        /\ name_out.encoding = "None"
             => /\ SubSeq(name_out.name, 1, 8) = t_unknown
                /\ SubSeq(name_out.name, 9, Len(name_out.name))
                     = SubSeq(Hex(name_in), 1, Len(name_out.name) - 8)
                /\ Len(name_out.name) = 8 + (IF 2 * Len(name_in) < 32
                                              THEN 2 * Len(name_in) ELSE 32)

\* main has just printed the summary of the archive it was at and moved it
Relocated ==
    /\ summaries' = Append(summaries, result)
    /\ exit_code' = "running"

\* C21: archive relocation.  When main has summarised an archive and its
\* rename has not failed, the archive file has left its place for exactly
\* one of OK and ERR, it is in OK exactly when its result has success =
\* true, and no other archive file has moved; and when main exits with
\* status 0 every archive of the list is in OK or in ERR.
ArchiveRelocation ==
    /\ [][Relocated =>
            /\ location[calls] = "src"
            /\ location'[calls] \in {"OK", "ERR"}
            /\ location'[calls] = "OK" <=> result.success
            /\ \A k \in DOMAIN location \ {calls} : location'[k] = location[k]]_vars
    /\ [](exit_code = "0" => \A k \in DOMAIN location : location[k] \in {"OK", "ERR"})

\* the rename of an archive file failed, or the user interrupted the run
MoveFailedOrInterrupted ==
    \/ exit_code = "130"
    \/ exit_code = "2" /\ pc = "idle"

\* C22: batch progress.  Archives go to extract_archive in the order of the
\* list, each call finding the tracker as the call before left it; each
\* summary printed is the result of the call just made, one per call; and,
\* unless a rename of an archive file fails or the user interrupts, main
\* comes to have printed one summary for every archive of the list.
BatchProgress ==
    /\ [][calls' = calls + 1
            => /\ zf' = archives[calls + 1]
               /\ files' = files
               /\ method' = method]_vars
    /\ [][summaries' # summaries
            => /\ summaries' = Append(summaries, result)
               /\ Len(summaries') = calls]_vars
    /\ <>(MoveFailedOrInterrupted \/ Len(summaries) = Len(archives))

\* the path the step in hand renames the staged file onto, when it is the
\* entry's own target (lines 181-184)
PlacedOnto(p) ==
    /\ pc = "place"
    /\ ~cur.is_collision
    /\ p = Resolve(cur.target_path)

\* C23: staging never destroys delivered data.  No step of an entry (the
\* opening and the writing of its staging file, its deletion, its rename
\* away) truncates, replaces or removes a file that an earlier entry
\* delivered: every delivered file other than the one at the target the
\* entry is being placed onto is still there afterwards with its bytes.
StagingKeepsDelivered ==
    [][\A p \in DOMAIN disk :
          (disk[p].placed /\ ~PlacedOnto(p))
          => (p \in DOMAIN disk' /\ disk'[p].data = disk[p].data)]_vars

\* extract_archive is between two entries, or between two calls
BetweenEntries == pc \in {"idle", "loop"}

\* the file a record of the tracker stands for
RecordedAt(k) == Resolve(Join(output_dir, k))

\* C24: tracker-to-disk consistency.  Between entries every record of the
\* tracker has a file at its relative path, of the recorded size; and an
\* entry is classified IDENTICAL and its staged copy discarded only when
\* a file is at its path that holds the entry's content, as far as the
\* method compares content (the size under SIZE, the bytes otherwise).
TrackerMatchesDisk ==
    /\ [](BetweenEntries =>
            \A k \in DOMAIN files :
               /\ RecordedAt(k) \in DOMAIN disk
               /\ disk[RecordedAt(k)].data.size = files[k][1])
    /\ [][(pc = "place" /\ cur.is_collision /\ cur.files_identical
              /\ outcome' = Append(outcome, "skipped"))
            => /\ Resolve(cur.target_path) \in DOMAIN disk
               /\ LET there == disk[Resolve(cur.target_path)].data
                  IN  IF method = "size"
                      THEN there.size = StagedData.size
                      ELSE there = StagedData]_vars

\* no I/O fault having been injected, extract_archive is at work under a
\* hashing method on the archive it was given in the call before, which
\* went through all its entries
Reextracting ==
    /\ InCall
    /\ method # "size"
    /\ faults = 0
    /\ zf.status = "ok"
    /\ prev.zf = zf
    /\ Len(prev.outcome) = Len(zf.entries)

\* the paths at which an entry has been delivered
DeliveredPaths == {p \in DOMAIN disk : disk[p].placed}

\* C25: output-tree idempotence.  Under a hashing method, while an archive
\* is extracted a second time by the same Extractor, no I/O fault being
\* injected, no step delivers a file at a new path and the result keeps
\* files_extracted = 0 and files_renamed = 0.
OutputTreeIdempotent ==
    [][(Reextracting /\ faults' = 0)
        => /\ DeliveredPaths' \subseteq DeliveredPaths
           /\ result'.files_extracted = 0
           /\ result'.files_renamed = 0]_vars
====
